---- MODULE Spec2Model ----
(***************************************************************************)
(* Model of the Corgi3D NEAR contract (src/src/lib.rs): the item registry  *)
(* (corgis), the forward map (corgi_to_account), the owner index           *)
(* (account_corgis), the escrow table (account_gives_access) and the       *)
(* public calls that change them.  A call that panics is rolled back by    *)
(* the host, so it changes nothing; last is the last call that returned.   *)
(*                                                                         *)
(* Amounts are counted in NEAR (10^24 yocto), so the fee                   *)
(* 3_000_000_000_000_000_000_000_000 of create_corgi is 3.                 *)
(***************************************************************************)
EXTENDS Integers, Sequences, FiniteSets, TLC

VARIABLES
    corgi_to_account,      \* UnorderedMap<TokenId, AccountId>
    corgis,                \* UnorderedMap<TokenId, Corgi>
    account_corgis,        \* UnorderedMap<AccountIdHash, UnorderedSet<TokenId>>
    next_corgi_id,         \* TokenId
    account_gives_access,  \* UnorderedMap<AccountIdHash, UnorderedSet<AccountIdHash>>
    access_index,          \* storage: set prefix + 'i' + element -> index
    access_elements,       \* storage: set prefix + 'e' + index -> element
    granted,               \* history: who each account granted and did not revoke since
    last                   \* the last call that returned: name, caller, arguments, promise

state == <<corgi_to_account, corgis, account_corgis, next_corgi_id,
           account_gives_access, access_index, access_elements>>

vars == <<corgi_to_account, corgis, account_corgis, next_corgi_id,
          account_gives_access, access_index, access_elements, granted, last>>

----------------------------------------------------------------------------
(* Bounds and input sets *)

MaxCorgis == 2

MaxAccessLen == 2

MaxGrants == 2

EscrowCorgis == 1

\* ids given out in the trait scope
TraitCorgis == 2

CREATE_FEE == 3

Accounts == {"joe", "robert", "mike"}

\* the accounts that grant and revoke in the escrow scope
Granters == {"joe", "robert"}

Deposits == {2, 3, 4}

Prices == {3}

Messages == {"hi"}

Names == {"a"}

RandomSeeds == {<<0, 1, 2>>}

----------------------------------------------------------------------------
(* Collections *)

MapRemove(m, k) == [x \in DOMAIN m \ {k} |-> m[x]]

MapInsert(m, k, v) == [x \in DOMAIN m \cup {k} |-> IF x = k THEN v ELSE m[x]]

Range(s) == {s[i] : i \in DOMAIN s}

\* env::sha256(account.as_bytes()): one digest per account, none shared.
Sha256(account) == <<"sha256", account>>

\* UnorderedSet<TokenId> of one account.  Its prefix 'u' + account_hash is
\* its own, so its storage is private and the set is its element vector.
NewTokenSet == <<>>

TokenSetInsert(s, id) == IF id \in Range(s) THEN s ELSE Append(s, id)

\* remove = swap_remove of the element's index in the vector
TokenSetRemove(s, id) ==
    IF id \notin Range(s) THEN s
    ELSE LET i == CHOOSE j \in DOMAIN s : s[j] = id
             n == Len(s)
         IN  [j \in 1 .. (n - 1) |-> IF j = i THEN s[n] ELSE s[j]]

----------------------------------------------------------------------------
(* UnorderedSet<AccountIdHash> of the escrow table.  A set keeps its       *)
(* element -> index entries under prefix + 'i' (access_index) and the slots  *)
(* of its element vector under prefix + 'e' (access_elements); the value     *)
(* stored in account_gives_access is the prefix and the vector's length.     *)
(* grant_access builds every set with the one prefix "new-access-set".       *)

NewAccessSet == [prefix |-> "new-access-set", len |-> 0]

\* UnorderedSet::contains: storage_has_key(prefix + 'i' + element)
AccessSetContains(set, index, h) == <<set.prefix, h>> \in DOMAIN index

\* UnorderedSet::insert: an element whose index key exists is not added;
\* else the index key is written and the element pushed at slot len.
AccessSetInsert(set, index, elements, h) ==
    IF <<set.prefix, h>> \in DOMAIN index
    THEN [set |-> set, index |-> index, elements |-> elements]
    ELSE [set |-> [set EXCEPT !.len = set.len + 1],
          index |-> MapInsert(index, <<set.prefix, h>>, set.len),
          elements |-> MapInsert(elements, <<set.prefix, set.len>>, h)]

\* Vector::pop_raw on a non-empty vector: the last slot has to exist.
VectorPop(set, elements) ==
    LET key == <<set.prefix, set.len - 1>>
    IN  IF key \in DOMAIN elements
        THEN [ok |-> TRUE, set |-> [set EXCEPT !.len = set.len - 1],
              elements |-> MapRemove(elements, key), value |-> elements[key]]
        ELSE [ok |-> FALSE, set |-> set, elements |-> elements, value |-> <<>>]

\* Vector::swap_remove_raw
VectorSwapRemove(set, elements, i) ==
    IF i >= set.len
    THEN [ok |-> FALSE, set |-> set, elements |-> elements]
    ELSE LET popped == VectorPop(set, elements)
         IN  IF i + 1 = set.len
             THEN [ok |-> popped.ok, set |-> popped.set,
                   elements |-> popped.elements]
             ELSE IF popped.ok /\ <<set.prefix, i>> \in DOMAIN popped.elements
                  THEN [ok |-> TRUE, set |-> popped.set,
                        elements |-> MapInsert(popped.elements, <<set.prefix, i>>,
                                               popped.value)]
                  ELSE [ok |-> FALSE, set |-> set, elements |-> elements]

\* UnorderedSet::remove of an element whose index key exists (revoke_access
\* calls it after contains).  ok = FALSE is a panic of the collection
\* (inconsistent state, index out of bounds), which aborts the call.
AccessSetRemove(set, index, elements, h) ==
    LET key == <<set.prefix, h>>
        i == index[key]
        lastKey == <<set.prefix, set.len - 1>>
        lastOk == set.len = 1 \/ (set.len > 1 /\ lastKey \in DOMAIN elements)
        index1 == IF set.len = 1 \/ ~lastOk THEN MapRemove(index, key)
                  ELSE LET lastElement == elements[lastKey]
                       IN  IF lastElement # h
                           THEN MapInsert(MapRemove(index, key),
                                          <<set.prefix, lastElement>>, i)
                           ELSE MapRemove(index, key)
        removed == VectorSwapRemove(set, elements, i)
    IN  [ok |-> lastOk /\ removed.ok, set |-> removed.set,
         index |-> index1, elements |-> removed.elements]

----------------------------------------------------------------------------
(* Views *)

\* get_token_owner: the owner, or a panic when the id has none
HasOwner(c2a, id) == id \in DOMAIN c2a

get_token_owner(id) == corgi_to_account[id]

\* check_access without the shortcut for the account itself
check_access_by_set_only(account_id, predecessor) ==
    IF Sha256(account_id) \in DOMAIN account_gives_access
    THEN AccessSetContains(account_gives_access[Sha256(account_id)],
                           access_index, Sha256(predecessor))
    ELSE FALSE

\* check_access(account_id) called by predecessor
check_access(account_id, predecessor) ==
    IF predecessor = account_id THEN TRUE
    ELSE IF Sha256(account_id) \in DOMAIN account_gives_access
         THEN AccessSetContains(account_gives_access[Sha256(account_id)],
                                access_index, Sha256(predecessor))
         ELSE FALSE

Min(a, b) == IF a < b THEN a ELSE b

\* get_corgis_by_owner_range: the items at the positions
\* from_index .. min(from_index + limit, len) - 1 of the owner's vector;
\* NotFound is the panic "Account not found" of the expect, Inconsistent the
\* one of the unwrap on an id that corgis does not have
get_corgis_by_owner_range(owner, from_index, limit) ==
    IF Sha256(owner) \notin DOMAIN account_corgis
    THEN [res |-> "NotFound", items |-> <<>>]
    ELSE LET ids == account_corgis[Sha256(owner)]
             hi == Min(from_index + limit, Len(ids))
             n == IF hi > from_index THEN hi - from_index ELSE 0
         IN  IF \E k \in 1 .. n : ids[from_index + k] \notin DOMAIN corgis
             THEN [res |-> "Inconsistent", items |-> <<>>]
             ELSE [res |-> "ok",
                   items |-> [k \in 1 .. n |-> corgis[ids[from_index + k]]]]

HasBucket(owner) == Sha256(owner) \in DOMAIN account_corgis

get_corgis_by_owner(owner) == get_corgis_by_owner_range(owner, 0, next_corgi_id)

----------------------------------------------------------------------------
(* Trait generator *)

\* seed[0..l] = v[0..l] with l = min(24, len), seed[24..32] = id.to_le_bytes()
RECURSIVE ToLeBytes(_, _)
ToLeBytes(n, count) ==
    IF count = 0 THEN <<>> ELSE <<n % 256>> \o ToLeBytes(n \div 256, count - 1)

LeBytes(n) == ToLeBytes(n, 8)

\* a seed that takes up to 32 bytes of v and adds the id bytes to the last 8
SeedOf_all_entropy(v, id) ==
    [k \in 1 .. 32 |->
        IF k <= 24 THEN (IF k <= Len(v) THEN v[k] ELSE 0)
        ELSE ((IF k <= Len(v) THEN v[k] ELSE 0) + LeBytes(id)[k - 24]) % 256]

SeedOf(v, id) ==
    [k \in 1 .. 24 |-> IF k <= Min(24, Len(v)) THEN v[k] ELSE 0] \o LeBytes(id)

RECURSIVE Mix(_, _, _)
Mix(seed, k, acc) ==
    IF k > Len(seed) THEN acc
    ELSE Mix(seed, k + 1, (acc * 31 + seed[k] + 7) % 65521)

\* ChaCha20Rng::from_seed(seed).next_u32(), n-th draw: a fixed function of the
\* 32 seed bytes and of n.  The cipher is stood in for by a small mixing
\* function: the model relies on nothing but the draw being a function of these.
NextU32(seed, n) == Mix(seed, 1, 17 + 101 * n)

random_num(v, id) ==
    LET seed == SeedOf(v, id)
    IN  <<NextU32(seed, 1) % 100, NextU32(seed, 2) % 50>>

\* the tiers with every threshold taken inclusive
Rarity_inclusive(r2) ==
    IF r2 >= 30 THEN "COMMON"
    ELSE IF r2 >= 13 THEN "UNCOMMON"
    ELSE IF r2 >= 3 THEN "RARE"
    ELSE IF r2 > 0 THEN "VERY RARE"
    ELSE "ULTRA RARE"

Rarity(r2) ==
    IF r2 > 30 THEN "COMMON"
    ELSE IF r2 > 13 THEN "UNCOMMON"
    ELSE IF r2 > 3 THEN "RARE"
    ELSE IF r2 > 0 THEN "VERY RARE"
    ELSE "ULTRA RARE"

Sausage(rarity, l) ==
    IF rarity = "ULTRA RARE" THEN l + 200
    ELSE IF rarity = "VERY RARE" THEN l + 150
    ELSE IF rarity = "RARE" THEN l + 100
    ELSE IF rarity = "UNCOMMON" THEN l + 50
    ELSE l

\* generate_rate_sausage after the draws (r1, r2) = r
rate_and_sausage(r) ==
    LET rarity == Rarity(r[2])
    IN  <<rarity, Sausage(rarity, r[1])>>

generate_rate_sausage(v, id) == rate_and_sausage(random_num(v, id))

----------------------------------------------------------------------------
(* Owner index helpers *)

\* delete_corgi_from_account that forgets to take the id out of the bucket
delete_corgi_from_account_keeps_bucket(c2a, ac, id, account) ==
    [ok |-> Sha256(account) \in DOMAIN ac,
     corgi_to_account |-> MapRemove(c2a, id),
     account_corgis |-> ac]

\* delete_corgi_from_account: ok = FALSE is the unwrap of a missing bucket
\* delete_corgi_from_account that drops a bucket it has emptied
delete_corgi_from_account_drops_empty(c2a, ac, id, account) ==
    LET account_hash == Sha256(account)
    IN  IF account_hash \in DOMAIN ac
        THEN [ok |-> TRUE,
              corgi_to_account |-> MapRemove(c2a, id),
              account_corgis |->
                  IF TokenSetRemove(ac[account_hash], id) = <<>>
                  THEN MapRemove(ac, account_hash)
                  ELSE MapInsert(ac, account_hash,
                                 TokenSetRemove(ac[account_hash], id))]
        ELSE [ok |-> FALSE, corgi_to_account |-> c2a, account_corgis |-> ac]

delete_corgi_from_account(c2a, ac, id, account) ==
    LET account_hash == Sha256(account)
    IN  IF account_hash \in DOMAIN ac
        THEN [ok |-> TRUE,
              corgi_to_account |-> MapRemove(c2a, id),
              account_corgis |->
                  MapInsert(ac, account_hash, TokenSetRemove(ac[account_hash], id))]
        ELSE [ok |-> FALSE, corgi_to_account |-> c2a, account_corgis |-> ac]

save_corgi_to_account(c2a, ac, id, account) ==
    LET account_hash == Sha256(account)
        set == IF account_hash \in DOMAIN ac THEN ac[account_hash] ELSE NewTokenSet
    IN  [corgi_to_account |-> MapInsert(c2a, id, account),
         account_corgis |-> MapInsert(ac, account_hash, TokenSetInsert(set, id))]

----------------------------------------------------------------------------
(* The outcome of a call on the current state: res, the values of the        *)
(* contract's fields the call leaves behind, and the promise it returns.     *)
(* res is "ok" or the kind of the panic:                                     *)
(*   NotFound            "Corgi not found", "No owner of the token ID ..."   *)
(*   Unauthorized        "Attempt to call transfer on tokens belonging ...", *)
(*                       "Attempt to transfer a token with no access.",      *)
(*                       "Don't have permission to delete/sell corgi"        *)
(*   OwnerMismatch       "Attempt to transfer a token from a different owner"*)
(*   NoDelegation        "Access does not exist."                            *)
(*   DelegateNotFound    "Did not find access for escrow ID."                *)
(*   InvalidPayment      "Each new corgi cost 3 NEAR"                        *)
(*   InsufficientPayment "Don't pay enough money to buy corgi"               *)
(*   Inconsistent        a panic inside a collection or an unwrap of None    *)
(* A panic makes the host discard every write of the call, so the outcome    *)
(* of a panicking call holds the fields as they were.                        *)

Unchanged ==
    [res |-> "ok",
     corgi_to_account |-> corgi_to_account,
     corgis |-> corgis,
     account_corgis |-> account_corgis,
     next_corgi_id |-> next_corgi_id,
     account_gives_access |-> account_gives_access,
     access_index |-> access_index,
     access_elements |-> access_elements,
     granted |-> granted,
     promise |-> <<>>,
     returned |-> <<>>,
     draws |-> <<>>]

Panic(kind) == [Unchanged EXCEPT !.res = kind]

\* the delete-then-save pair that also drops the delegations of the old owner
MoveCorgi_dropping_access(o, id, from, to) ==
    LET d == delete_corgi_from_account(o.corgi_to_account, o.account_corgis, id, from)
        s == save_corgi_to_account(d.corgi_to_account, d.account_corgis, id, to)
    IN  IF d.ok
        THEN [o EXCEPT !.corgi_to_account = s.corgi_to_account,
                       !.account_corgis = s.account_corgis,
                       !.account_gives_access =
                           MapRemove(o.account_gives_access, Sha256(from))]
        ELSE Panic("Inconsistent")

\* the delete-then-save pair of transfer, transfer_from and buy_corgi,
\* applied to the outcome o
MoveCorgi(o, id, from, to) ==
    LET d == delete_corgi_from_account(o.corgi_to_account, o.account_corgis, id, from)
        s == save_corgi_to_account(d.corgi_to_account, d.account_corgis, id, to)
    IN  IF d.ok
        THEN [o EXCEPT !.corgi_to_account = s.corgi_to_account,
                       !.account_corgis = s.account_corgis]
        ELSE Panic("Inconsistent")

----------------------------------------------------------------------------
(* Item registry and marketplace *)

\* the item create_corgi builds for id with the (rate, sausage) pair rs
DrawnCorgi(id, name, rs) ==
    [id |-> id, name |-> name, color |-> "blue",
     background_color |-> "green", quote |-> "haha",
     rate |-> rs[1], sausage |-> rs[2],
     selling |-> FALSE, selling_price |-> 0,
     message |-> "", sender |-> ""]

\* the item create_corgi builds for id
NewCorgi(id, name, random_seed) ==
    DrawnCorgi(id, name, generate_rate_sausage(random_seed, next_corgi_id))

\* create_corgi that leaves the id counter where it was
create_corgi_keeps_counter(predecessor, attached_deposit, name, random_seed) ==
    IF attached_deposit # CREATE_FEE THEN Panic("InvalidPayment")
    ELSE LET id == next_corgi_id
             s == save_corgi_to_account(corgi_to_account, account_corgis, id,
                                        predecessor)
         IN  [Unchanged EXCEPT
                  !.corgis = MapInsert(corgis, id, NewCorgi(id, name, random_seed)),
                  !.corgi_to_account = s.corgi_to_account,
                  !.account_corgis = s.account_corgis,
                  !.returned = <<name, id>>]

\* create_corgi that gives the new item the lowest id not in the registry
create_corgi_reusing_ids(predecessor, attached_deposit, name, random_seed) ==
    IF attached_deposit # CREATE_FEE THEN Panic("InvalidPayment")
    ELSE LET id == CHOOSE i \in 0 .. next_corgi_id :
                       /\ i \notin DOMAIN corgis
                       /\ \A j \in 0 .. (i - 1) : j \in DOMAIN corgis
             s == save_corgi_to_account(corgi_to_account, account_corgis, id,
                                        predecessor)
         IN  [Unchanged EXCEPT
                  !.next_corgi_id = next_corgi_id + 1,
                  !.corgis = MapInsert(corgis, id, NewCorgi(id, name, random_seed)),
                  !.corgi_to_account = s.corgi_to_account,
                  !.account_corgis = s.account_corgis,
                  !.returned = <<name, id>>]

\* create_corgi that takes any deposit of at least the fee
create_corgi_fee_or_more(predecessor, attached_deposit, name, random_seed) ==
    IF attached_deposit < CREATE_FEE THEN Panic("InvalidPayment")
    ELSE LET id == next_corgi_id
             s == save_corgi_to_account(corgi_to_account, account_corgis, id,
                                        predecessor)
         IN  [Unchanged EXCEPT
                  !.next_corgi_id = next_corgi_id + 1,
                  !.corgis = MapInsert(corgis, id, NewCorgi(id, name, random_seed)),
                  !.corgi_to_account = s.corgi_to_account,
                  !.account_corgis = s.account_corgis,
                  !.returned = <<name, id>>]

create_corgi(predecessor, attached_deposit, name, random_seed) ==
    IF attached_deposit # CREATE_FEE THEN Panic("InvalidPayment")
    ELSE LET id == next_corgi_id
             corgi == NewCorgi(id, name, random_seed)
             s == save_corgi_to_account(corgi_to_account, account_corgis, id,
                                        predecessor)
         IN  [Unchanged EXCEPT !.next_corgi_id = next_corgi_id + 1,
                               !.corgis = MapInsert(corgis, id, corgi),
                               !.corgi_to_account = s.corgi_to_account,
                               !.account_corgis = s.account_corgis,
                               !.returned = <<name, id>>,
                               !.draws = random_num(random_seed, next_corgi_id)]

\* create_corgi in a block whose random seed makes random_num return r.
\* ChaCha20 is a library outside the contract: every pair of residues
\* (0 .. 99, 0 .. 49) is a pair its two draws can give.
create_corgi_drawn(predecessor, attached_deposit, name, r) ==
    IF attached_deposit # CREATE_FEE THEN Panic("InvalidPayment")
    ELSE LET id == next_corgi_id
             corgi == DrawnCorgi(id, name, rate_and_sausage(r))
             s == save_corgi_to_account(corgi_to_account, account_corgis, id,
                                        predecessor)
         IN  [Unchanged EXCEPT !.next_corgi_id = next_corgi_id + 1,
                               !.corgis = MapInsert(corgis, id, corgi),
                               !.corgi_to_account = s.corgi_to_account,
                               !.account_corgis = s.account_corgis,
                               !.returned = <<name, id>>,
                               !.draws = r]

delete_corgi(predecessor, id) ==
    IF id \notin DOMAIN corgis THEN Panic("NotFound")
    ELSE IF ~HasOwner(corgi_to_account, id) THEN Panic("Inconsistent")
    ELSE LET account == corgi_to_account[id]
         IN  IF account = predecessor \/ check_access(account, predecessor)
             THEN LET d == delete_corgi_from_account(corgi_to_account,
                                                     account_corgis, id, account)
                  IN  IF ~d.ok THEN Panic("Inconsistent")
                      ELSE [Unchanged EXCEPT
                                !.corgi_to_account = d.corgi_to_account,
                                !.account_corgis = d.account_corgis,
                                !.corgis = MapRemove(corgis, id)]
             ELSE Panic("Unauthorized")

sell_corgi(predecessor, id, price) ==
    IF id \notin DOMAIN corgis THEN Panic("NotFound")
    ELSE IF ~HasOwner(corgi_to_account, id) THEN Panic("Inconsistent")
    ELSE LET account == corgi_to_account[id]
         IN  IF account = predecessor \/ check_access(account, predecessor)
             THEN [Unchanged EXCEPT
                       !.corgis = [corgis EXCEPT ![id].selling = TRUE,
                                                 ![id].selling_price = price]]
             ELSE Panic("Unauthorized")

\* buy_corgi without the comparison of the deposit with the price
buy_corgi_any_deposit(predecessor, attached_deposit, id) ==
    IF id \notin DOMAIN corgis THEN Panic("NotFound")
    ELSE IF ~HasOwner(corgi_to_account, id) THEN Panic("Inconsistent")
    ELSE MoveCorgi([Unchanged EXCEPT
                        !.corgis = [corgis EXCEPT ![id].selling = FALSE],
                        !.promise = <<[receiver |-> corgi_to_account[id],
                                       amount |-> attached_deposit]>>],
                   id, corgi_to_account[id], predecessor)

\* buy_corgi that sends the seller the price and not the whole deposit
buy_corgi_sending_price(predecessor, attached_deposit, id) ==
    IF id \notin DOMAIN corgis THEN Panic("NotFound")
    ELSE IF ~HasOwner(corgi_to_account, id) THEN Panic("Inconsistent")
    ELSE IF attached_deposit < corgis[id].selling_price
    THEN Panic("InsufficientPayment")
    ELSE MoveCorgi([Unchanged EXCEPT
                        !.corgis = [corgis EXCEPT ![id].selling = FALSE],
                        !.promise = <<[receiver |-> corgi_to_account[id],
                                       amount |-> corgis[id].selling_price]>>],
                   id, corgi_to_account[id], predecessor)

buy_corgi(predecessor, attached_deposit, id) ==
    IF id \notin DOMAIN corgis THEN Panic("NotFound")
    ELSE IF ~HasOwner(corgi_to_account, id) THEN Panic("Inconsistent")
    ELSE LET seller == corgi_to_account[id]
             buyer == predecessor
         IN  IF attached_deposit < corgis[id].selling_price
             THEN Panic("InsufficientPayment")
             ELSE MoveCorgi([Unchanged EXCEPT
                                 !.corgis = [corgis EXCEPT ![id].selling = FALSE],
                                 !.promise = <<[receiver |-> seller,
                                                amount |-> attached_deposit]>>],
                            id, seller, buyer)

----------------------------------------------------------------------------
(* Escrow table *)

grant_access(predecessor, escrow_account_id) ==
    LET escrow_hash == Sha256(escrow_account_id)
        predecessor_hash == Sha256(predecessor)
        access_set == IF predecessor_hash \in DOMAIN account_gives_access
                      THEN account_gives_access[predecessor_hash]
                      ELSE NewAccessSet
        set == AccessSetInsert(access_set, access_index, access_elements,
                               escrow_hash)
    IN  [Unchanged EXCEPT
             !.account_gives_access =
                 MapInsert(account_gives_access, predecessor_hash, set.set),
             !.access_index = set.index,
             !.access_elements = set.elements,
             !.granted = [granted EXCEPT ![predecessor] = @ \cup {escrow_account_id}]]

revoke_access(predecessor, escrow_account_id) ==
    LET escrow_hash == Sha256(escrow_account_id)
        predecessor_hash == Sha256(predecessor)
    IN  IF predecessor_hash \notin DOMAIN account_gives_access
        THEN Panic("NoDelegation")
        ELSE IF AccessSetContains(account_gives_access[predecessor_hash],
                                  access_index, escrow_hash)
             THEN LET set == AccessSetRemove(account_gives_access[predecessor_hash],
                                             access_index, access_elements,
                                             escrow_hash)
                  IN  IF ~set.ok THEN Panic("Inconsistent")
                      ELSE [Unchanged EXCEPT
                                !.account_gives_access =
                                    MapInsert(account_gives_access, predecessor_hash,
                                              set.set),
                                !.access_index = set.index,
                                !.access_elements = set.elements,
                                !.granted = [granted EXCEPT ![predecessor] =
                                                 @ \ {escrow_account_id}]]
             ELSE Panic("DelegateNotFound")

----------------------------------------------------------------------------
(* Transfer engine *)

\* transfer that lets an escrow account through, as transfer_from does
transfer_with_escrow(predecessor, new_owner_id, token_id) ==
    IF ~HasOwner(corgi_to_account, token_id) THEN Panic("NotFound")
    ELSE LET token_owner_account_id == get_token_owner(token_id)
         IN  IF ~check_access(token_owner_account_id, predecessor)
             THEN Panic("Unauthorized")
             ELSE MoveCorgi(Unchanged, token_id, token_owner_account_id,
                            new_owner_id)

transfer(predecessor, new_owner_id, token_id) ==
    IF ~HasOwner(corgi_to_account, token_id) THEN Panic("NotFound")
    ELSE LET token_owner_account_id == get_token_owner(token_id)
         IN  IF predecessor # token_owner_account_id THEN Panic("Unauthorized")
             ELSE MoveCorgi(Unchanged, token_id, token_owner_account_id,
                            new_owner_id)

\* transfer_from that checks the caller's access before the claimed owner
transfer_from_access_first(predecessor, owner_id, new_owner_id, token_id) ==
    IF ~HasOwner(corgi_to_account, token_id) THEN Panic("NotFound")
    ELSE LET token_owner_account_id == get_token_owner(token_id)
         IN  IF ~check_access(token_owner_account_id, predecessor)
             THEN Panic("Unauthorized")
             ELSE IF owner_id # token_owner_account_id THEN Panic("OwnerMismatch")
             ELSE MoveCorgi(Unchanged, token_id, token_owner_account_id,
                            new_owner_id)

transfer_from(predecessor, owner_id, new_owner_id, token_id) ==
    IF ~HasOwner(corgi_to_account, token_id) THEN Panic("NotFound")
    ELSE LET token_owner_account_id == get_token_owner(token_id)
         IN  IF owner_id # token_owner_account_id THEN Panic("OwnerMismatch")
             ELSE IF ~check_access(token_owner_account_id, predecessor)
             THEN Panic("Unauthorized")
             ELSE MoveCorgi(Unchanged, token_id, token_owner_account_id,
                            new_owner_id)

\* the message lines run although the base transfer did not return
StoreMessage_on_failure(o, token_id, message) ==
    IF token_id \notin DOMAIN o.corgis THEN o
    ELSE [o EXCEPT !.corgis[token_id].message = message]

\* the lines of the _with_message calls after the base transfer returned
StoreMessage(o, token_id, message) ==
    IF o.res # "ok" THEN o
    ELSE IF token_id \notin DOMAIN o.corgis THEN Panic("Inconsistent")
    ELSE [o EXCEPT !.corgis[token_id].message = message]

transfer_with_message(predecessor, new_owner_id, token_id, message) ==
    StoreMessage(transfer(predecessor, new_owner_id, token_id), token_id, message)

transfer_from_with_message(predecessor, owner_id, new_owner_id, token_id, message) ==
    StoreMessage(transfer_from(predecessor, owner_id, new_owner_id, token_id),
                 token_id, message)

----------------------------------------------------------------------------
(* The host: it runs one call at a time and commits the outcome of a call    *)
(* that returns; a call that panics leaves no trace in the contract.         *)

\* what a call record holds for an argument the call does not have
NoAccount == ""

NoToken == 0 - 1

NoAmount == 0 - 1

\* no random seed read by the call
NoSeed == <<0 - 1>>

Call(op, predecessor, owner_id, account_id, token_id, message, amount) ==
    [op |-> op, predecessor |-> predecessor, owner_id |-> owner_id,
     account_id |-> account_id, token_id |-> token_id, message |-> message,
     amount |-> amount, promise |-> <<>>, random_seed |-> NoSeed,
     draws |-> <<>>]

Commit(call, o) ==
    IF o.res # "ok" THEN UNCHANGED vars
    ELSE /\ corgi_to_account' = o.corgi_to_account
         /\ corgis' = o.corgis
         /\ account_corgis' = o.account_corgis
         /\ next_corgi_id' = o.next_corgi_id
         /\ account_gives_access' = o.account_gives_access
         /\ access_index' = o.access_index
         /\ access_elements' = o.access_elements
         /\ granted' = o.granted
         /\ last' = [call EXCEPT !.promise = o.promise, !.draws = o.draws]

CreateCorgi(p, d, n, v) ==
    Commit([Call("create_corgi", p, NoAccount, NoAccount, next_corgi_id, "", d)
                EXCEPT !.random_seed = v],
           create_corgi(p, d, n, v))

CreateCorgiDrawn(p, d, n, r) ==
    Commit(Call("create_corgi", p, NoAccount, NoAccount, next_corgi_id, "", d),
           create_corgi_drawn(p, d, n, r))

DeleteCorgi(p, id) ==
    Commit(Call("delete_corgi", p, NoAccount, NoAccount, id, "", NoAmount),
           delete_corgi(p, id))

SellCorgi(p, id, price) ==
    Commit(Call("sell_corgi", p, NoAccount, NoAccount, id, "", price),
           sell_corgi(p, id, price))

BuyCorgi(p, d, id) ==
    Commit(Call("buy_corgi", p, NoAccount, NoAccount, id, "", d),
           buy_corgi(p, d, id))

GrantAccess(p, e) ==
    Commit(Call("grant_access", p, NoAccount, e, NoToken, "", NoAmount),
           grant_access(p, e))

RevokeAccess(p, e) ==
    Commit(Call("revoke_access", p, NoAccount, e, NoToken, "", NoAmount),
           revoke_access(p, e))

Transfer(p, n, id) ==
    Commit(Call("transfer", p, NoAccount, n, id, "", NoAmount),
           transfer(p, n, id))

TransferFrom(p, o, n, id) ==
    Commit(Call("transfer_from", p, o, n, id, "", NoAmount),
           transfer_from(p, o, n, id))

TransferWithMessage(p, n, id, m) ==
    Commit(Call("transfer_with_message", p, NoAccount, n, id, m, NoAmount),
           transfer_with_message(p, n, id, m))

TransferFromWithMessage(p, o, n, id, m) ==
    Commit(Call("transfer_from_with_message", p, o, n, id, m, NoAmount),
           transfer_from_with_message(p, o, n, id, m))

----------------------------------------------------------------------------
(* State after Corgi3D::new *)

Init ==
    /\ corgi_to_account = <<>>
    /\ account_gives_access = <<>>
    /\ corgis = <<>>
    /\ account_corgis = <<>>
    /\ next_corgi_id = 0
    /\ access_index = <<>>
    /\ access_elements = <<>>
    /\ granted = [a \in Accounts |-> {}]
    /\ last = Call("new", NoAccount, NoAccount, NoAccount, NoToken, "", NoAmount)

\* the grants offered: those that keep the vectors and the number of live
\* grants within the bounds
GrantWithin(p, e, maxLen, maxLive) ==
    LET o == grant_access(p, e)
    IN  /\ o.account_gives_access[Sha256(p)].len <= maxLen
        /\ Cardinality({pair \in Accounts \X Accounts :
                            pair[2] \in o.granted[pair[1]]}) <= maxLive

ItemCalls(maxCorgis, messages, prices, deposits) ==
    \/ /\ next_corgi_id < maxCorgis
       /\ \E p \in Accounts, d \in deposits, n \in Names, v \in RandomSeeds :
              CreateCorgi(p, d, n, v)
    \/ \E p \in Accounts, id \in 0 .. (maxCorgis - 1) : DeleteCorgi(p, id)
    \/ \E p \in Accounts, id \in 0 .. (maxCorgis - 1), price \in prices :
           SellCorgi(p, id, price)
    \/ \E p \in Accounts, d \in deposits, id \in 0 .. (maxCorgis - 1) :
           BuyCorgi(p, d, id)
    \/ \E p \in Accounts, n \in Accounts, id \in 0 .. (maxCorgis - 1) :
           Transfer(p, n, id)
    \/ \E p \in Accounts, o \in Accounts, n \in Accounts,
          id \in 0 .. (maxCorgis - 1) :
           TransferFrom(p, o, n, id)
    \/ \E p \in Accounts, n \in Accounts, id \in 0 .. (maxCorgis - 1),
          m \in messages :
           TransferWithMessage(p, n, id, m)
    \/ \E p \in Accounts, o \in Accounts, n \in Accounts,
          id \in 0 .. (maxCorgis - 1), m \in messages :
           TransferFromWithMessage(p, o, n, id, m)

\* The item scope: every item call with every argument, and one delegation.
Next ==
    \/ ItemCalls(MaxCorgis, Messages, Prices, Deposits)
    \/ \E p \in {"joe"}, e \in {"robert"} : GrantAccess(p, e)
    \/ \E p \in {"joe"}, e \in {"robert"} : RevokeAccess(p, e)

Spec == Init /\ [][Next]_vars

\* The escrow scope: few items with plain arguments, and every grant and
\* revoke of the granters.
NextEscrow ==
    \/ ItemCalls(EscrowCorgis, {""}, {0}, {CREATE_FEE})
    \/ \E p \in Granters, e \in Accounts :
           GrantWithin(p, e, MaxAccessLen, MaxGrants) /\ GrantAccess(p, e)
    \/ \E p \in Granters, e \in Accounts : RevokeAccess(p, e)

SpecEscrow == Init /\ [][NextEscrow]_vars

\* n bytes b
Bytes(n, b) == [k \in 1 .. n |-> b]

\* random seeds shorter than, as long as and longer than the 24 bytes
\* random_num copies, some equal in their first 24 bytes
TraitSeeds ==
    {<<>>, <<0, 1, 2>>, <<0, 1, 2, 0>>, <<0, 1, 3>>,
     Bytes(24, 7), Bytes(24, 7) \o <<1>>, Bytes(24, 7) \o <<2, 3>>,
     Bytes(23, 7), Bytes(32, 9)}

\* the two draws of random_num: next_u32() % 100 and next_u32() % 50
Draws == (0 .. 99) \X (0 .. 49)

\* The trait scope: creates with every seed of TraitSeeds, a first create
\* with every pair of draws, and deletes and transfers to a third account between them.
NextTraits ==
    \/ /\ next_corgi_id < TraitCorgis
       /\ \E p \in {"joe", "robert"}, n \in Names, v \in TraitSeeds :
              CreateCorgi(p, CREATE_FEE, n, v)
    \/ /\ next_corgi_id = 0
       /\ \E n \in Names, r \in Draws : CreateCorgiDrawn("joe", CREATE_FEE, n, r)
    \/ \E p \in Accounts, id \in 0 .. (TraitCorgis - 1) : DeleteCorgi(p, id)
    \/ \E p \in Accounts, n \in {"mike"}, id \in 0 .. (TraitCorgis - 1) :
           Transfer(p, n, id)

SpecTraits == Init /\ [][NextTraits]_vars

----------------------------------------------------------------------------
(* Properties *)

OwnerOf(id) == corgi_to_account[id]

Owned == DOMAIN corgi_to_account

\* the accounts whose bucket holds id
Holders(id) ==
    {a \in Accounts : HasBucket(a) /\ id \in Range(account_corgis[Sha256(a)])}

\* C1: between calls the registry, the forward map and the owner index
\* agree: corgis and corgi_to_account have the same ids, every id of the
\* forward map is in the bucket of the owner the map names and in no other
\* bucket, and no bucket holds an id the forward map does not have.
C1_StructuresAgree ==
    /\ DOMAIN corgis = DOMAIN corgi_to_account
    /\ \A id \in Owned : Holders(id) = {OwnerOf(id)}
    /\ \A h \in DOMAIN account_corgis :
           /\ h \in {Sha256(a) : a \in Accounts}
           /\ \A id \in Range(account_corgis[h]) : id \in Owned
           /\ \A i, j \in DOMAIN account_corgis[h] :
                  account_corgis[h][i] = account_corgis[h][j] => i = j

\* two items of two owners, a bucket emptied by an earlier call, right after
\* an escrow account moved an item
C1_Witness ==
    /\ last.op = "transfer_from"
    /\ last.predecessor # last.owner_id
    /\ \E i, j \in Owned : OwnerOf(i) # OwnerOf(j)
    /\ \E a \in Accounts : HasBucket(a) /\ account_corgis[Sha256(a)] = <<>>

\* C2: transfer returns only for the owner of the token; for any other
\* caller, one with escrow access of the owner included, it panics
\* Unauthorized and leaves every field as it was.
C2_TransferOnlyByOwner ==
    \A id \in Owned, p \in Accounts, n \in Accounts :
        LET o == transfer(p, n, id)
        IN  /\ o.res = "ok" => p = OwnerOf(id)
            /\ p # OwnerOf(id) => o = Panic("Unauthorized")

\* an escrow account of the owner is refused by transfer, in a state reached
\* by a transfer of the owner
C2_Witness ==
    /\ last.op = "transfer"
    /\ \E id \in Owned, p \in Accounts :
           /\ p # OwnerOf(id)
           /\ check_access(OwnerOf(id), p)
           /\ transfer(p, p, id).res = "Unauthorized"

\* C3: transfer_from with the right claimed owner, called by an account that
\* is neither the owner nor an account the owner granted and did not revoke
\* since, panics Unauthorized and changes nothing.
C3_StrangerIsRefused ==
    \A id \in Owned, p \in Accounts, n \in Accounts :
        (p # OwnerOf(id) /\ p \notin granted[OwnerOf(id)])
            => transfer_from(p, OwnerOf(id), n, id) = Panic("Unauthorized")

\* C4: transfer_from with a claimed owner that is not the owner panics
\* OwnerMismatch, whatever access the caller has, and changes nothing.
C4_WrongOwnerIsMismatch ==
    \A id \in Owned, p \in Accounts, o \in Accounts, n \in Accounts :
        o # OwnerOf(id) => transfer_from(p, o, n, id) = Panic("OwnerMismatch")

\* a wrong claimed owner named by the owner's escrow account, by the claimed
\* owner itself and by that account's escrow account, after a transfer_from
C4_Witness ==
    /\ last.op = "transfer_from"
    /\ \E id \in Owned, p \in Accounts, o \in Accounts :
           /\ o # OwnerOf(id)
           /\ p # OwnerOf(id) /\ check_access(OwnerOf(id), p)
           /\ p # o /\ check_access(o, p)
           /\ transfer_from(p, o, p, id).res = "OwnerMismatch"
           /\ transfer_from(o, o, p, id).res = "OwnerMismatch"

\* C5: transfer_from(O1, O2, id) by O1 or by an account O1 granted and did
\* not revoke since returns; after it O2 owns id, O1's bucket is without id,
\* O2's bucket has it, and every other item has the owner it had.
C5_OwnerOrDelegateMoves ==
    \A id \in Owned, p \in Accounts, n \in Accounts :
        LET o1 == OwnerOf(id)
            o == transfer_from(p, o1, n, id)
        IN  (p = o1 \/ p \in granted[o1]) =>
                /\ o.res = "ok"
                /\ o.corgi_to_account[id] = n
                /\ n # o1 => id \notin Range(o.account_corgis[Sha256(o1)])
                /\ id \in Range(o.account_corgis[Sha256(n)])
                /\ \A other \in Owned \ {id} :
                       o.corgi_to_account[other] = OwnerOf(other)

\* C6: check_access(account) called by caller is true exactly when caller is
\* account or account granted caller and did not revoke it since; a grant of
\* another account never makes it true.
C6_AccessIsOwnGrant ==
    \A account \in Accounts, caller \in Accounts :
        check_access(account, caller)
            <=> (caller = account \/ caller \in granted[account])

\* the step is the committed call op of p with the account argument e
IsStep(op, p, e) ==
    /\ vars' # vars
    /\ last'.op = op /\ last'.predecessor = p /\ last'.account_id = e

C8_GrantRevokeLocal ==
    [][\A a \in Accounts, b \in Accounts :
          (IsStep("grant_access", a, b) \/ IsStep("revoke_access", a, b)) =>
              /\ IsStep("grant_access", a, b) =>
                     /\ Sha256(a) \in DOMAIN account_gives_access'
                     /\ check_access(a, b)'
                     /\ grant_access(a, b)' = Unchanged'
              /\ \A c \in Accounts \ {a} :
                     /\ (Sha256(c) \in DOMAIN account_gives_access)
                            <=> (Sha256(c) \in DOMAIN account_gives_access')
                     /\ Sha256(c) \in DOMAIN account_gives_access =>
                            account_gives_access'[Sha256(c)] =
                                account_gives_access[Sha256(c)]
                     /\ \A x \in Accounts :
                            check_access(c, x)' = check_access(c, x)]_vars

\* C9: delegation is not transitive: when Y granted Z and Z granted W and Y
\* never granted W, W (# Y) has no access to Y: check_access(Y) by W is false
\* and transfer_from, sell_corgi and delete_corgi by W on Y's items panic.
C9_NotTransitive ==
    \A y \in Accounts, z \in Accounts, w \in Accounts :
        (w # y /\ z \in granted[y] /\ w \in granted[z] /\ w \notin granted[y]) =>
            /\ ~check_access(y, w)
            /\ \A id \in Owned :
                   OwnerOf(id) = y =>
                       /\ \A n \in Accounts : transfer_from(w, y, n, id).res # "ok"
                       /\ \A price \in Prices : sell_corgi(w, id, price).res # "ok"
                       /\ delete_corgi(w, id).res # "ok"

OwnershipCalls ==
    {"transfer", "transfer_from", "transfer_with_message",
     "transfer_from_with_message", "buy_corgi"}

\* C10: after every transfer, transfer_from, transfer_with_message,
\* transfer_from_with_message or buy_corgi that returned, the item it moved
\* is not listed (selling = FALSE).
C10_OwnershipChangeClearsListing ==
    last.op \in OwnershipCalls => ~corgis[last.token_id].selling

\* the bucket of account a in the outcome o holds id
InBucket(o, a, id) ==
    /\ Sha256(a) \in DOMAIN o.account_corgis
    /\ id \in Range(o.account_corgis[Sha256(a)])

\* the deposits a call is tried with: none, and those of Deposits
Payments == 0 .. 4

\* C11: buy_corgi with a deposit strictly below the selling_price of the
\* item panics InsufficientPayment (the price shortfall of lib.rs:274): the
\* owner, the buckets, the selling flag and the selling_price stay as they
\* were and no promise is made.
C11_UnderpaidBuyFails ==
    \A id \in DOMAIN corgis, p \in Accounts, d \in Payments :
        d < corgis[id].selling_price =>
            LET o == buy_corgi(p, d, id)
            IN  /\ o.res = "InsufficientPayment"
                /\ o.promise = <<>>
                /\ o.corgi_to_account = corgi_to_account
                /\ o.account_corgis = account_corgis
                /\ o.corgis = corgis
                /\ o = Panic("InsufficientPayment")

\* an item just listed at a price some deposit of Deposits is below, which
\* an account other than the owner fails to buy with that deposit
C11_Witness ==
    /\ last.op = "sell_corgi"
    /\ corgis[last.token_id].selling
    /\ \E d \in Deposits, p \in Accounts :
           /\ d < corgis[last.token_id].selling_price
           /\ p # OwnerOf(last.token_id)
           /\ buy_corgi(p, d, last.token_id).res = "InsufficientPayment"

\* C12: buy_corgi with a deposit of at least the selling_price returns: the
\* item goes from the seller, the owner at the time of the call (whoever
\* made the listing), to the caller, leaves the bucket of the seller,
\* is in the bucket of the caller, is no longer selling, and exactly one
\* promise is made, a transfer to the seller of the whole deposit.
C12_PaidBuyMovesItem ==
    \A id \in Owned, p \in Accounts, d \in Payments :
        d >= corgis[id].selling_price =>
            LET o == buy_corgi(p, d, id)
                seller == OwnerOf(id)
            IN  /\ o.res = "ok"
                /\ o.corgi_to_account[id] = p
                /\ p # seller => ~InBucket(o, seller, id)
                /\ InBucket(o, p, id)
                /\ ~o.corgis[id].selling
                /\ o.promise = <<[receiver |-> seller, amount |-> d]>>
                /\ \A other \in Owned \ {id} :
                       /\ o.corgi_to_account[other] = corgi_to_account[other]
                       /\ o.corgis[other] = corgis[other]

\* right after a buy_corgi by an account other than the seller, with a
\* deposit above the price the item was listed at; the seller got it all
C12_Witness ==
    /\ last.op = "buy_corgi"
    /\ last.token_id \in Owned
    /\ OwnerOf(last.token_id) = last.predecessor
    /\ corgis[last.token_id].selling_price > 0
    /\ last.amount > corgis[last.token_id].selling_price
    /\ ~corgis[last.token_id].selling
    /\ Len(last.promise) = 1
    /\ last.promise[1].amount = last.amount
    /\ last.promise[1].receiver # last.predecessor

\* the ids a call is tried with: every id given out so far and the next
TokenIds == 0 .. next_corgi_id

\* the prices a listing is tried with
SellPrices == Prices \cup {0}

\* p is the owner of id or an account the owner granted and has not revoked
OwnerOrDelegate(p, id) == p = OwnerOf(id) \/ p \in granted[OwnerOf(id)]

\* C13: sell_corgi returns exactly when the item exists and the caller is
\* its owner or an account the owner granted access and has not revoked.
\* Then selling = TRUE and selling_price = price and nothing else changes
\* (owner, buckets, escrow table, other items; no promise).  Any other
\* caller panics Unauthorized and an unknown id NotFound, nothing changed.
C13_SellByOwnerOrDelegate ==
    \A id \in TokenIds, p \in Accounts, price \in SellPrices :
        sell_corgi(p, id, price) =
            IF id \notin DOMAIN corgis THEN Panic("NotFound")
            ELSE IF OwnerOrDelegate(p, id)
            THEN [Unchanged EXCEPT
                      !.corgis = [corgis EXCEPT ![id].selling = TRUE,
                                                ![id].selling_price = price]]
            ELSE Panic("Unauthorized")

\* C14: delete_corgi returns exactly when the item exists and the caller is
\* its owner or an account the owner granted access and has not revoked.
\* Then the id is in neither corgis nor corgi_to_account nor the bucket of
\* the former owner, and every other item and its owner are as before.  An
\* unknown id panics NotFound and any other caller Unauthorized, nothing
\* changed.
C14_DeleteByOwnerOrDelegate ==
    \A id \in TokenIds, p \in Accounts :
        LET o == delete_corgi(p, id)
        IN  IF id \notin DOMAIN corgis THEN o = Panic("NotFound")
            ELSE IF OwnerOrDelegate(p, id)
            THEN /\ o.res = "ok"
                 /\ id \notin DOMAIN o.corgis
                 /\ id \notin DOMAIN o.corgi_to_account
                 /\ ~InBucket(o, OwnerOf(id), id)
                 /\ \A other \in Owned \ {id} :
                        /\ o.corgis[other] = corgis[other]
                        /\ o.corgi_to_account[other] = corgi_to_account[other]
                        /\ InBucket(o, OwnerOf(other), other)
                 /\ o.account_gives_access = account_gives_access
                 /\ o.promise = <<>>
            ELSE o = Panic("Unauthorized")

\* C15: revoke_access(b) by a panics NoDelegation when a has no set in
\* account_gives_access; it panics DelegateNotFound when a has a set and b
\* is not an account a granted and has not revoked since; else it returns
\* and b has no access to a any more.  Both panics leave the escrow table
\* as it was.
C15_RevokeFailures ==
    \A a \in Accounts, b \in Accounts :
        LET o == revoke_access(a, b)
        IN  IF Sha256(a) \notin DOMAIN account_gives_access
            THEN o = Panic("NoDelegation")
            ELSE IF b \notin granted[a]
            THEN o = Panic("DelegateNotFound")
            ELSE /\ o.res = "ok"
                 /\ ~AccessSetContains(o.account_gives_access[Sha256(a)],
                                       o.access_index, Sha256(b))

\* C16: in every state check_access(x) called by x is TRUE, whether x has
\* no set in account_gives_access, an empty one, or one without x.
C16_SelfAccess == \A x \in Accounts : check_access(x, x)

\* an account with no set, one whose set is empty and one whose set holds
\* another account, none of them with its own hash in the set's storage
C16_Witness ==
    /\ \E x \in Accounts : Sha256(x) \notin DOMAIN account_gives_access
    /\ \E x \in Accounts :
           /\ Sha256(x) \in DOMAIN account_gives_access
           /\ account_gives_access[Sha256(x)].len = 0
           /\ ~check_access_by_set_only(x, x)
    /\ \E x \in Accounts :
           /\ Sha256(x) \in DOMAIN account_gives_access
           /\ account_gives_access[Sha256(x)].len > 0
           /\ ~check_access_by_set_only(x, x)

\* C17: create_corgi by p with the fee attached returns (name, id) with id
\* the next_corgi_id before the call, adds one to next_corgi_id, and puts
\* in corgis an item with that id and name that is not selling, has
\* selling_price 0 and an empty message, is owned by p and is in the bucket
\* of p; no item there was before and no owner of one changes.
C17_CreateEffects ==
    \A p \in Accounts, name \in Names, v \in RandomSeeds :
        \A o \in {create_corgi(p, CREATE_FEE, name, v)}, id \in {next_corgi_id} :
            /\ o.res = "ok"
            /\ o.returned = <<name, id>>
            /\ o.next_corgi_id = next_corgi_id + 1
            /\ DOMAIN o.corgis = DOMAIN corgis \cup {id}
            /\ o.corgis[id].id = id
            /\ o.corgis[id].name = name
            /\ ~o.corgis[id].selling
            /\ o.corgis[id].selling_price = 0
            /\ o.corgis[id].message = ""
            /\ o.corgi_to_account[id] = p
            /\ InBucket(o, p, id)
            /\ \A other \in Owned :
                   /\ o.corgis[other] = corgis[other]
                   /\ o.corgi_to_account[other] = corgi_to_account[other]
                   /\ InBucket(o, OwnerOf(other), other)

\* right after the second create_corgi, by the owner of the first item or
\* another account, with the first item listed before the call
C17_Witness ==
    /\ last.op = "create_corgi"
    /\ last.token_id > 0
    /\ next_corgi_id = last.token_id + 1
    /\ OwnerOf(last.token_id) = last.predecessor
    /\ ~corgis[last.token_id].selling
    /\ \E other \in Owned \ {last.token_id} : corgis[other].selling

\* C18: ids are unique and never used twice: every id of corgis and of
\* corgi_to_account is below next_corgi_id, next_corgi_id never goes down,
\* a call adds to corgis at most the id next_corgi_id and then raises
\* next_corgi_id, and an id below next_corgi_id that is not in corgis (a
\* deleted one) is in neither corgis nor corgi_to_account after any call.
C18_IdsNeverReused ==
    /\ [](\A id \in DOMAIN corgis \cup Owned : id < next_corgi_id)
    /\ [][/\ next_corgi_id' >= next_corgi_id
          /\ (DOMAIN corgis' \ DOMAIN corgis) \subseteq {next_corgi_id}
          /\ (DOMAIN corgis' \ DOMAIN corgis) # {} =>
                 next_corgi_id' > next_corgi_id
          /\ \A id \in 0 .. (next_corgi_id - 1) :
                 id \notin DOMAIN corgis =>
                     /\ id \notin DOMAIN corgis'
                     /\ id \notin DOMAIN corgi_to_account']_vars

\* right after a create_corgi that followed the deletion of an earlier item
C18_Witness ==
    /\ last.op = "create_corgi"
    /\ last.token_id \in DOMAIN corgis
    /\ \E id \in 0 .. (last.token_id - 1) : id \notin DOMAIN corgis

\* C19: create_corgi panics InvalidPayment for every deposit other than the
\* fee, lower or higher, and then changes nothing (next_corgi_id, corgis,
\* owners and buckets as before); with exactly the fee it returns.
C19_CreateFee ==
    \A p \in Accounts, name \in Names, v \in RandomSeeds, d \in Payments :
        IF d = CREATE_FEE THEN create_corgi(p, d, name, v).res = "ok"
        ELSE create_corgi(p, d, name, v) = Panic("InvalidPayment")

\* after a create_corgi with the fee, where a lower and a higher deposit of
\* Deposits are both refused
C19_Witness ==
    /\ last.op = "create_corgi"
    /\ last.amount = CREATE_FEE
    /\ \E lo \in Deposits, hi \in Deposits :
           /\ lo < CREATE_FEE
           /\ hi > CREATE_FEE
           /\ \A p \in Accounts, name \in Names, v \in RandomSeeds :
                  /\ create_corgi(p, lo, name, v).res = "InvalidPayment"
                  /\ create_corgi(p, hi, name, v).res = "InvalidPayment"

\* the calls that write the escrow table
EscrowCalls == {"grant_access", "revoke_access"}

\* the escrow table with the storage of its sets
EscrowTable == <<account_gives_access, access_index, access_elements>>

\* C20: every step of create_corgi, transfer, transfer_from, the two
\* _with_message calls, delete_corgi, sell_corgi and buy_corgi leaves the
\* escrow table with the storage of its sets as it was, and so every
\* check_access answer (a call that panics is rolled back whole); only
\* grant_access and revoke_access change the table.
C20_ItemCallsKeepEscrow ==
    [][last'.op \notin EscrowCalls =>
           /\ UNCHANGED EscrowTable
           /\ granted' = granted
           /\ \A a \in Accounts, x \in Accounts :
                  check_access(a, x)' = check_access(a, x)]_vars

\* right after an escrow account of the owner moved an item of the owner
\* that has granted it, the grant still in the table
C20_Witness ==
    /\ last.op = "transfer_from"
    /\ last.predecessor # last.owner_id
    /\ last.predecessor \in granted[last.owner_id]
    /\ check_access(last.owner_id, last.predecessor)

\* the outcome w of a _with_message call is the outcome b of its base call
\* with the message stored on the item, or the panic of b
SameAsBase(b, w, token_id, message) ==
    IF b.res = "ok"
    THEN /\ w.res = "ok"
         /\ w.corgi_to_account = b.corgi_to_account
         /\ w.account_corgis = b.account_corgis
         /\ w.corgis[token_id].message = message
         /\ w = [b EXCEPT !.corgis[token_id].message = message]
    ELSE /\ w.res = b.res
         /\ w.corgi_to_account = corgi_to_account
         /\ w.corgis = corgis
         /\ w = Panic(b.res)

\* C21: transfer_with_message and transfer_from_with_message return and
\* panic exactly as transfer and transfer_from do with the same arguments,
\* move the item the same way, and when they return the item's message is
\* the one given; when the base call panics (Unauthorized, OwnerMismatch,
\* NotFound) neither the owner nor the message of the item changes.
C21_WithMessageAsBase ==
    \A p \in Accounts, n \in Accounts, id \in TokenIds, m \in Messages :
        /\ \A b \in {transfer(p, n, id)},
              w \in {transfer_with_message(p, n, id, m)} :
               SameAsBase(b, w, id, m)
        /\ \A o \in Accounts :
               \A b \in {transfer_from(p, o, n, id)},
                  w \in {transfer_from_with_message(p, o, n, id, m)} :
                   SameAsBase(b, w, id, m)

\* right after an escrow account moved an item with a message, which the
\* item now carries, while a third account is refused and an owner other
\* than the real one is a mismatch
C21_Witness ==
    /\ last.op = "transfer_from_with_message"
    /\ last.predecessor # last.owner_id
    /\ last.message # ""
    /\ corgis[last.token_id].message = last.message
    /\ OwnerOf(last.token_id) = last.account_id
    /\ \E p \in Accounts, n \in Accounts, m \in Messages :
           /\ transfer_with_message(p, n, last.token_id, m).res = "Unauthorized"
           /\ transfer_from_with_message(p, p, n, last.token_id, m).res =
                  "OwnerMismatch"
           /\ transfer_with_message(p, n, next_corgi_id, m).res = "NotFound"

\* the ids whose owner is account a
OwnedBy(a) == {id \in Owned : OwnerOf(id) = a}

\* C22: get_corgis_by_owner(owner) panics NotFound exactly when owner has
\* no bucket in account_corgis; an account without a bucket owns nothing, a
\* bucket once there stays, and a call gives an account its bucket only by
\* giving it an item, so no bucket means the account never held an item.
\* For an owner with a bucket the call returns the items whose owner is
\* that account, each once, one per id of the bucket; the empty sequence
\* when the account has none left.
C22_ListByOwner ==
    /\ [](\A a \in Accounts :
              \A r \in {get_corgis_by_owner(a)} :
                  IF ~HasBucket(a)
                  THEN r.res = "NotFound" /\ OwnedBy(a) = {}
                  ELSE /\ r.res = "ok"
                       /\ Len(r.items) = Len(account_corgis[Sha256(a)])
                       /\ Len(r.items) = Cardinality(OwnedBy(a))
                       /\ {r.items[k].id : k \in DOMAIN r.items} = OwnedBy(a)
                       /\ \A k \in DOMAIN r.items :
                              r.items[k] = corgis[r.items[k].id])
    /\ [][\A a \in Accounts :
              /\ HasBucket(a) => HasBucket(a)'
              /\ (~HasBucket(a) /\ HasBucket(a)') =>
                     Sha256(a) \in DOMAIN account_corgis' /\
                     account_corgis'[Sha256(a)] # <<>>]_vars

\* an account that never held an item, one that holds one, and one whose
\* only item has just been deleted, bought or moved away
C22_Witness ==
    /\ last.op \in {"delete_corgi", "buy_corgi", "transfer"}
    /\ \E a \in Accounts : get_corgis_by_owner(a).res = "NotFound"
    /\ \E a \in Accounts :
           /\ HasBucket(a)
           /\ get_corgis_by_owner(a) = [res |-> "ok", items |-> <<>>]
    /\ \E a \in Accounts :
           /\ get_corgis_by_owner(a).res = "ok"
           /\ Len(get_corgis_by_owner(a).items) > 0

\* the bonus of a tier
Bonus(tier) ==
    CASE tier = "COMMON" -> 0
      [] tier = "UNCOMMON" -> 50
      [] tier = "RARE" -> 100
      [] tier = "VERY RARE" -> 150
      [] tier = "ULTRA RARE" -> 200

\* C23: for draws r1 in 0 .. 99 and r2 in 0 .. 49 the item create_corgi
\* builds has rate COMMON if r2 > 30, UNCOMMON if 13 < r2 <= 30, RARE if
\* 3 < r2 <= 13, VERY RARE if 0 < r2 <= 3 and ULTRA RARE if r2 = 0, and
\* sausage r1 + bonus with bonus 0, 50, 100, 150, 200 for these tiers, so
\* that bonus <= sausage <= bonus + 99.
C23_TierTable ==
    (last.op = "create_corgi" /\ last.draws # <<>>) =>
        LET r1 == last.draws[1]
            r2 == last.draws[2]
            c == corgis[last.token_id]
        IN  /\ r1 \in 0 .. 99
            /\ r2 \in 0 .. 49
            /\ r2 > 30 => c.rate = "COMMON"
            /\ (13 < r2 /\ r2 <= 30) => c.rate = "UNCOMMON"
            /\ (3 < r2 /\ r2 <= 13) => c.rate = "RARE"
            /\ (0 < r2 /\ r2 <= 3) => c.rate = "VERY RARE"
            /\ r2 = 0 => c.rate = "ULTRA RARE"
            /\ c.rate \in {"COMMON", "UNCOMMON", "RARE", "VERY RARE", "ULTRA RARE"}
            /\ c.sausage = r1 + Bonus(c.rate)
            /\ Bonus(c.rate) <= c.sausage
            /\ c.sausage <= Bonus(c.rate) + 99

\* right after a create_corgi that drew the highest r1 and the r2 of the
\* last UNCOMMON before COMMON
C23_Witness ==
    /\ last.op = "create_corgi"
    /\ last.draws = <<99, 30>>
    /\ corgis[last.token_id].rate = "UNCOMMON"
    /\ corgis[last.token_id].sausage = 149

\* the first 24 bytes of the random seed v, zero-padded when v is shorter
Entropy24(v) == [k \in 1 .. 24 |-> IF k <= Len(v) THEN v[k] ELSE 0]

\* C24: the (rate, sausage) of the item a create_corgi builds is a fixed
\* function of the first 24 bytes of the random seed of the call
\* (zero-padded when shorter) and of the id of the item, the next_corgi_id
\* before the call: whoever calls, whatever items and owners there are,
\* the same seed and id give the same pair.
C24_TraitsOfSeedAndId ==
    (last.op = "create_corgi" /\ last.random_seed # NoSeed) =>
        /\ next_corgi_id = last.token_id + 1
        /\ <<corgis[last.token_id].rate, corgis[last.token_id].sausage>> =
               generate_rate_sausage(Entropy24(last.random_seed), last.token_id)

\* right after the second create_corgi, by an account other than the owner
\* of the first item, with a seed longer than 24 bytes
C24_Witness ==
    /\ last.op = "create_corgi"
    /\ last.random_seed # NoSeed
    /\ Len(last.random_seed) > 24
    /\ last.random_seed # Entropy24(last.random_seed)
    /\ last.token_id = 1
    /\ 0 \in Owned
    /\ OwnerOf(0) # last.predecessor

\* C25: buy_corgi moves an item only when it is selling: on an item whose
\* selling flag is FALSE a buy_corgi by another account, with any deposit,
\* does not make the caller the owner.
C25_BuyOnlyListed ==
    \A id \in Owned, p \in Accounts, d \in Payments :
        (~corgis[id].selling /\ p # OwnerOf(id)) =>
            \A o \in {buy_corgi(p, d, id)} :
                o.res = "ok" => o.corgi_to_account[id] = OwnerOf(id)

====
